---- MODULE Spec2Model ----
(***************************************************************************)
(* Model of the quality-assurance rule engine of maya-quality-assurance:   *)
(* the QualityAssurance base class (utils/qa.py), the undo context         *)
(* (utils/undo.py), the ifNoErrorsReturn decorator (utils/decorators.py)   *)
(* and the widgets that drive find / fix / Find All / Fix All              *)
(* (ui/widgets.py).                                                        *)
(*                                                                         *)
(* The scene graph is a set of existing nodes.  A detection pass (_find)   *)
(* and a remediation (_fix) are host calls: what a pass yields, whether a  *)
(* remediation raises and which nodes it deletes are inputs, drawn from    *)
(* bounded sets.  Python calls are split into steps (call, one step per    *)
(* loop iteration, exit, return) so that the states inside a call are      *)
(* visible; the frame of the running call is the variable op.              *)
(***************************************************************************)
EXTENDS Integers, Sequences, FiniteSets, TLC

\* ------------------------------------------------------------------ bounds
NNodes == 2      \* nodes of the scene graph
MaxYield == 3    \* subjects one detection pass yields at most
MaxClasses == 3  \* class statements one check module holds at most
MaxCalls == 2    \* calls of the functions of the checks package
MaxFound == 1    \* check instances that hold errors at one time

Nodes == 1..NNodes

\* the node a file reference brings into the scene; it is read-only, so no
\* edit of the scene deletes it
Referenced == {NNodes + 1}

AllNodes == Nodes \cup Referenced

\* ------------------------------------------------------- the rule classes
\* What each check class sets in __init__ (name and categories left out),
\* whether its body has a _find / _fix method, and whether its _find yields
\* lists (compound) or single strings.  The message template is the list of
\* its literal parts and "{0}" fields.  scoped: _find lists its nodes with
\* self.ls / self.lsApi, which follow onSelected; filtered: _find skips the
\* nodes of a file reference; writes: _find calls commands that edit the
\* scene.

\* the defaults of the base class, which implements neither method
QualityAssurance ==
  [hasFind |-> FALSE, hasFix |-> FALSE, selectable |-> FALSE,
   urgency |-> 2, compound |-> FALSE, message |-> <<>>,
   scoped |-> FALSE, filtered |-> FALSE, writes |-> FALSE]

DeleteHistory ==
  [hasFind |-> TRUE, hasFix |-> TRUE, selectable |-> TRUE,
   urgency |-> 2, compound |-> FALSE,
   message |-> <<"{0}", " mesh(es) contain history nodes">>,
   scoped |-> TRUE, filtered |-> TRUE, writes |-> FALSE]

NGonFaces ==
  [hasFind |-> TRUE, hasFix |-> TRUE, selectable |-> TRUE,
   urgency |-> 1, compound |-> TRUE,
   message |-> <<"{0}", " mesh(es) with n-gon face(s)">>,
   scoped |-> TRUE, filtered |-> TRUE, writes |-> FALSE]

EmptyUVSets ==
  [hasFind |-> TRUE, hasFix |-> TRUE, selectable |-> FALSE,
   urgency |-> 2, compound |-> FALSE,
   message |-> <<"{0}", " empty uv set(s)">>,
   scoped |-> FALSE, filtered |-> TRUE, writes |-> FALSE]

DuplicateAdjustments ==
  [hasFind |-> TRUE, hasFix |-> TRUE, selectable |-> FALSE,
   urgency |-> 2, compound |-> TRUE,
   message |-> <<"{0}", " duplicate renderlayer adjustment(s)">>,
   scoped |-> TRUE, filtered |-> TRUE, writes |-> FALSE]

DefaultName ==
  [hasFind |-> TRUE, hasFix |-> FALSE, selectable |-> TRUE,
   urgency |-> 1, compound |-> FALSE,
   message |-> <<"{0}", " transform(s) have a default name">>,
   scoped |-> TRUE, filtered |-> TRUE, writes |-> FALSE]

PrimaryVisibility ==
  [hasFind |-> TRUE, hasFix |-> TRUE, selectable |-> TRUE,
   urgency |-> 2, compound |-> FALSE,
   message |-> <<"{0}", " mesh(es) are not visible">>,
   scoped |-> TRUE, filtered |-> FALSE, writes |-> FALSE]

MismatchedAdjustments ==
  [hasFind |-> TRUE, hasFix |-> TRUE, selectable |-> FALSE,
   urgency |-> 2, compound |-> TRUE,
   message |-> <<"{0}", " mismatched renderlayer adjustment(s)">>,
   scoped |-> TRUE, filtered |-> FALSE, writes |-> TRUE]

\* The check instances of the model.  "Unimplemented" is an instance of a
\* subclass that keeps every default of the base class.
RuleTable ==
  [ DeleteHistory |-> DeleteHistory,
    NGonFaces |-> NGonFaces,
    EmptyUVSets |-> EmptyUVSets,
    DuplicateAdjustments |-> DuplicateAdjustments,
    DefaultName |-> DefaultName,
    PrimaryVisibility |-> PrimaryVisibility,
    MismatchedAdjustments |-> MismatchedAdjustments,
    Unimplemented |-> QualityAssurance ]

RuleNames == DOMAIN RuleTable

\* The widget lists of the model: the checks a view shows that the model
\* follows, in the order of self.widgets.
Views ==
  { <<"DeleteHistory", "EmptyUVSets">>,
    <<"NGonFaces", "DuplicateAdjustments">>,
    <<"DefaultName", "Unimplemented", "DeleteHistory">> }

\* The instances a script works on, one at a time.
SingleViews == {<<r>> : r \in RuleNames}

\* ---------------------------------------------------------- error records
\* An error is what _find yields: one identifier (a string) or a list of
\* identifiers.  An identifier is named by the node that owns it; the list
\* errors of the model hold two components of one node.
StrError(n) == [list |-> FALSE, ids |-> <<n>>]
ListError(n) == [list |-> TRUE, ids |-> <<n, n>>]

ErrorsOf(r) ==
  IF RuleTable[r].compound THEN {ListError(n) : n \in AllNodes}
                           ELSE {StrError(n) : n \in AllNodes}

Subjects(e) == {e.ids[i] : i \in DOMAIN e.ids}

Range(s) == {s[i] : i \in DOMAIN s}

Contains(s, e) == \E i \in DOMAIN s : s[i] = e

\* list.remove(x): drops the first element equal to x
RECURSIVE Remove(_, _)
Remove(s, e) ==
  IF s = <<>> THEN <<>>
  ELSE IF Head(s) = e THEN Tail(s)
  ELSE <<Head(s)>> \o Remove(Tail(s), e)

VARIABLES
  view,        \* the rules of the widget list, in order (self.widgets)
  exists,      \* the nodes of the scene graph
  errors,      \* rule -> self._errors
  onSelected,  \* rule -> self._onSelected
  selection,   \* the host's active selection
  undoDepth,   \* number of open undo chunks
  fixEnabled,  \* rule -> the fix button of its widget is enabled
  selEnabled,  \* rule -> the select button of its widget is enabled
  op,          \* frame of the running find() / fix() call
  batch,       \* frame of the running doFindAll / doFixAll handler
  evaluated,   \* history: rule -> a find() call on it has returned
  flagged,     \* the nodes whose attributes make them offend a check
  detected,    \* history: the last two find() calls on the scene
  layer,       \* the current render layer
  edits        \* the loaded reference holds failed edits

\* the render layers of the scene; the current one is a global of the scene
hostVars == <<layer, edits>>

\* the part of the state that only the scene-driven detection uses
detVars == <<flagged, detected, hostVars>>

\* the checks package and what its functions returned last
VARIABLES
  package,     \* module -> the class statements of its source, in order
  keyOrder,    \* the order in which a dict of this process lists its keys
  created,     \* number of check instances created so far
  calls,       \* number of calls of the package's functions so far
  returned,    \* history: what the last two getChecks() calls returned
  data,        \* what the last getChecksSplitByCategory() returned
  resolved,    \* what the last getChecksFromCollection() returned
  withErrors   \* the check instances whose error list is not empty

regVars ==
  <<package, keyOrder, created, calls, returned, data, resolved, withErrors>>

vars == <<view, exists, errors, onSelected, selection, undoDepth,
          fixEnabled, selEnabled, op, batch, evaluated, detVars, regVars>>

\* ------------------------------------------------------------------ frames
NoOp == [kind |-> "none", rule |-> "none", caller |-> "none",
         phase |-> "none", todo |-> <<>>, log |-> <<>>, pre |-> <<>>]

Frame(kind, r, caller, phase, todo, pre) ==
  [kind |-> kind, rule |-> r, caller |-> caller, phase |-> phase,
   todo |-> todo, log |-> <<>>, pre |-> pre]

NoBatch == [kind |-> "none", i |-> 0, phase |-> "none", log |-> <<>>,
            due |-> <<>>]

InView(r) == \E i \in DOMAIN view : view[i] = r

\* ------------------------------------------------- QualityAssurance (qa.py)
isFindable(r) == RuleTable[r].hasFind

\* mutant: the check for a _fix method always succeeds
isFixableAlways(r) == TRUE

isFixable(r) == RuleTable[r].hasFix

\* mutant: every rule reports that its errors can be selected
isSelectableAlways(r) == TRUE

isSelectable(r) == RuleTable[r].selectable

\* cmds.objExists on a single identifier
objExists(e) == e.ids[1] \in exists

\* mutant: the decorator never returns its argument
ifNoErrorsReturnNever(r, argument, value) == value

\* the decorator: the argument when the error list is empty, else the
\* wrapped property
ifNoErrorsReturn(r, argument, value) ==
  IF errors[r] = <<>> THEN argument ELSE value

state(r) == ifNoErrorsReturn(r, 0, RuleTable[r].urgency)

\* str.format with one positional argument: every "{0}" field of the
\* template is replaced by the decimal digits of the number
RECURSIVE Decimal(_)
Decimal(n) ==
  IF n < 10 THEN <<n>> ELSE Append(Decimal(n \div 10), n % 10)

\* mutant: the count substituted is one too large
FormatOffByOne(template, n) ==
  [i \in DOMAIN template |->
     IF template[i] = "{0}" THEN Decimal(n + 1) ELSE template[i]]

Format(template, n) ==
  [i \in DOMAIN template |->
     IF template[i] = "{0}" THEN Decimal(n) ELSE template[i]]

message(r) ==
  ifNoErrorsReturn(r, <<>>, Format(RuleTable[r].message, Len(errors[r])))

\* mutant: the loop body appends without the membership test
StoreAlways(errs, e) == Append(errs, e)

\* find(): the loop body, lines 118-122
Store(errs, e) == IF Contains(errs, e) THEN errs ELSE Append(errs, e)

\* what a detection pass can yield: errors of the rule's kind whose nodes
\* are in the graph
Yieldable(r) == {e \in ErrorsOf(r) : Subjects(e) \subseteq exists}

\* mutant: find() does not reset the error list
FindCallNoReset(r, caller) ==
  /\ op' = Frame("find", r, caller,
                 IF isFindable(r) THEN "run" ELSE "raised", <<>>, errors[r])
  /\ errors' = errors

\* find(), lines 108-115: the capability check and the reset
FindCall(r, caller) ==
  /\ op' = Frame("find", r, caller,
                 IF isFindable(r) THEN "run" ELSE "raised", <<>>, errors[r])
  /\ errors' = IF isFindable(r) THEN [errors EXCEPT ![r] = <<>>] ELSE errors

\* find(), lines 118-122: the generator yields one more subject
FindYield ==
  /\ op.kind = "find" /\ op.phase = "run"
  /\ Len(op.log) < MaxYield
  /\ \E e \in Yieldable(op.rule) :
       /\ errors' = [errors EXCEPT ![op.rule] = Store(@, e)]
       /\ op' = [op EXCEPT !.log = Append(@, e)]
  /\ UNCHANGED <<regVars, detVars, view, evaluated, exists, onSelected, selection, undoDepth,
                 fixEnabled, selEnabled, batch>>

\* the generator is exhausted: find() returns
FindStop ==
  /\ op.kind = "find" /\ op.phase = "run"
  /\ op' = [op EXCEPT !.phase = "done"]
  /\ evaluated' = [evaluated EXCEPT ![op.rule] = TRUE]
  /\ UNCHANGED <<regVars, detVars, view, exists, errors, onSelected, selection, undoDepth,
                 fixEnabled, selEnabled, batch>>

\* a host query inside _find raises: the exception leaves find()
FindRaise ==
  /\ op.kind = "find" /\ op.phase = "run"
  /\ op' = [op EXCEPT !.phase = "raised"]
  /\ UNCHANGED <<regVars, detVars, view, evaluated, exists, errors, onSelected, selection, undoDepth,
                 fixEnabled, selEnabled, batch>>

\* mutant: __enter__ opens no chunk
UndoEnterNothing(d) == d

\* UndoContext.__enter__ / __exit__ (undo.py)
UndoEnter(d) == d + 1

\* mutant: __exit__ leaves the chunk open
UndoExitLeaveOpen(d) == d

UndoExit(d) == d - 1

\* mutant: no error is ever dropped as stale
IsStaleNever(r, e) == FALSE

\* mutant: the stale test does not ask whether the rule is selectable
IsStaleAnyRule(r, e) == ~e.list /\ ~objExists(e)

\* mutant: the stale test is made only in selection scope
IsStaleInScope(r, e) ==
  onSelected[r] /\ isSelectable(r) /\ ~e.list /\ ~objExists(e)

\* fix(), lines 156-159: the error is dropped without remediation
IsStale(r, e) == isSelectable(r) /\ ~e.list /\ ~objExists(e)

\* mutant: a remediation that raises ends the loop
AfterRaiseAbort(todo) == <<>>

\* mutant: after a remediation raised the loop steps over the next error
AfterRaiseSkip(todo) == IF Len(todo) > 1 THEN Tail(Tail(todo)) ELSE <<>>

\* fix(), lines 163-167: the loop goes on after a remediation raised
AfterRaise(todo) == Tail(todo)

\* fix(), lines 145-152: capability check, undo chunk, snapshot of errors
FixCall(r, caller) ==
  /\ op' = IF isFixable(r)
             THEN Frame("fix", r, caller, "run", errors[r], errors[r])
             ELSE Frame("fix", r, caller, "raised", <<>>, errors[r])
  /\ undoDepth' = IF isFixable(r) THEN UndoEnter(undoDepth) ELSE undoDepth

Visit(e, res) ==
  [err |-> e, res |-> res, existed |-> Subjects(e) \subseteq exists]

\* fix(), lines 152-167: one iteration of the loop over the snapshot
FixItem ==
  /\ op.kind = "fix" /\ op.phase = "run" /\ op.todo # <<>>
  /\ LET r == op.rule
         e == Head(op.todo)
     IN IF IsStale(r, e)
          THEN /\ errors' = [errors EXCEPT ![r] = Remove(@, e)]
               /\ op' = [op EXCEPT !.todo = Tail(@),
                                   !.log = Append(@, Visit(e, "drop"))]
               /\ exists' = exists
          ELSE \E del \in SUBSET exists :
                 /\ exists' = exists \ del
                 /\ \/ /\ errors' = [errors EXCEPT ![r] = Remove(@, e)]
                       /\ op' = [op EXCEPT !.todo = Tail(@),
                                           !.log = Append(@, Visit(e, "ok"))]
                    \/ /\ errors' = errors
                       /\ op' = [op EXCEPT !.todo = AfterRaise(@),
                                           !.log = Append(@, Visit(e, "raise"))]
  /\ UNCHANGED <<regVars, detVars, view, evaluated, onSelected, selection, undoDepth, fixEnabled,
                 selEnabled, batch>>

\* fix(), line 151: the with block is left, the chunk is closed
FixExit ==
  /\ op.kind = "fix" /\ op.phase = "run" /\ op.todo = <<>>
  /\ undoDepth' = UndoExit(undoDepth)
  /\ op' = [op EXCEPT !.phase = "done"]
  /\ UNCHANGED <<regVars, detVars, view, evaluated, exists, errors, onSelected, selection, fixEnabled,
                 selEnabled, batch>>

\* asFlatList (path.py) applied to a non-empty error list
RECURSIVE Flatten(_)
Flatten(ss) == IF ss = <<>> THEN <<>> ELSE Head(ss).ids \o Flatten(Tail(ss))

asFlatList(errs) ==
  IF errs[1].list THEN Flatten(errs) ELSE [i \in DOMAIN errs |-> errs[i].ids[1]]

\* select(), lines 199-200; cmds.select raises on a name that matches no
\* object and then leaves the selection as it was
Select(r) ==
  IF isSelectable(r) /\ errors[r] # <<>>
       /\ Range(asFlatList(errors[r])) \subseteq exists
    THEN selection' = Range(asFlatList(errors[r]))
    ELSE selection' = selection

\* ------------------------------------------------ detection on the scene
\* A list command of the host returns the nodes in scene order.
RECURSIVE Ordered(_)
Ordered(S) ==
  IF S = {} THEN <<>>
  ELSE LET n == CHOOSE x \in S : \A y \in S : x <= y
       IN <<n>> \o Ordered(S \ {n})

\* self.ls (qa.py lines 204-213): the selected nodes when onSelected is
\* set, else every node
ls(r) == Ordered(IF onSelected[r] THEN selection \cap exists ELSE exists)

\* cmds.ls called directly: every node, whatever onSelected is
cmdsLs == Ordered(exists)

\* cmds.referenceQuery(node, inr=True)
referenceQuery(n) == n \in Referenced

\* reference.removeReferenced
removeReferenced(nodes) == SelectSeq(nodes, LAMBDA n : ~referenceQuery(n))

\* the nodes a detection pass inspects
Listed(r) ==
  LET nodes == IF RuleTable[r].scoped THEN ls(r) ELSE cmdsLs
  IN IF RuleTable[r].filtered THEN removeReferenced(nodes) ELSE nodes

\* _find of a check: it yields, in the order of the list, an error for
\* every inspected node whose attributes offend
Find(r) ==
  LET offenders == SelectSeq(Listed(r), LAMBDA n : n \in flagged)
  IN [i \in DOMAIN offenders |->
        IF RuleTable[r].compound THEN ListError(offenders[i])
                                 ELSE StrError(offenders[i])]

\* the loop of find() over what the pass yields (lines 118-122)
RECURSIVE StoreAll(_, _)
StoreAll(errs, yielded) ==
  IF yielded = <<>> THEN errs
  ELSE StoreAll(Store(errs, Head(yielded)), Tail(yielded))

\* mutant: the pass leaves the host's selection cleared
SelectionAfterFindCleared(sel) == {}

\* no _find of the checks writes the host's selection
SelectionAfterFind(sel) == sel

\* the render layers of the scene
Layers == {"defaultRenderLayer", "layer1"}

\* MismatchedAdjustments._find, lines 232-240: cmds.file(cleanReference=...)
\* on every loaded reference that self.ls lists takes its failed edits away.
\* The reference is named by the node it brings into the scene.
EditsAfterFind(r) ==
  IF RuleTable[r].writes /\ Range(ls(r)) \cap Referenced # {} THEN FALSE
  ELSE edits

\* lines 244-346: the pass makes every layer but the default one current in
\* turn and, when the loop is exhausted, the layer that was current before
LayerAfterFind(r) == layer

\* an exception leaves the pass before line 346: the current layer is the
\* one the loop had reached
LayersAfterRaise(r) ==
  IF RuleTable[r].writes THEN {layer} \cup (Layers \ {"defaultRenderLayer"})
  ELSE {layer}

\* the last two calls of a history
LastTwo(h) == IF Len(h) > 1 THEN SubSeq(h, Len(h) - 1, Len(h)) ELSE h

\* ------------------------------------------ the checks package (registry)
\* Modules of the checks package that the model follows, in the order of
\* the import list (checks/__init__.py lines 22, 23, 27).
Imports == <<"textures", "geometry", "renderStats">>

ModuleNames == {Imports[i] : i \in DOMAIN Imports}

ModuleIndex(m) == CHOOSE i \in DOMAIN Imports : Imports[i] = m

\* the text of each module above its first class statement
Header ==
  [ textures |->
      "import os\nfrom maya import cmds\nfrom ..utils import QualityAssurance, reference\n\n\n",
    geometry |->
      "from maya import cmds, OpenMaya\nfrom ..utils import QualityAssurance, reference\n\n\n",
    renderStats |->
      "from maya import cmds\nfrom ..utils import QualityAssurance\n\n\n" ]

\* The categories the __init__ of each class sets.  Mesh is a check that a
\* contributor adds to geometry.py, written for two categories; none of the
\* shipped checks declares two.
Categories ==
  [ NonExistingTextures |-> <<"Textures">>,
    EmptyMesh |-> <<"Geometry">>,
    ZeroEdgeLength |-> <<"Geometry">>,
    Mesh |-> <<"Geometry", "Render Stats">>,
    PrimaryVisibility |-> <<"Render Stats">> ]

AllCategories == {"Textures", "Geometry", "Render Stats"}

\* the classes a module of the model may declare
Declarable ==
  [ textures |-> {"NonExistingTextures"},
    geometry |-> {"EmptyMesh", "ZeroEdgeLength", "Mesh"},
    renderStats |-> {"PrimaryVisibility"} ]

\* A module body is a sequence of class statements; a class may be declared
\* twice (geometry.py declares EmptyMesh at line 5 and at line 39).  The
\* modules with one class keep their one statement.
Bodies(m) ==
  IF Cardinality(Declarable[m]) = 1 THEN {<<c>> : c \in Declarable[m]}
  ELSE UNION {[1..n -> Declarable[m]] : n \in 1..MaxClasses}

Packages ==
  {p \in [ModuleNames -> UNION {Bodies(m) : m \in ModuleNames}] :
     \A m \in ModuleNames : p[m] \in Bodies(m)}

\* the orders in which a dict can list the categories
KeyOrders ==
  {o \in [1..Cardinality(AllCategories) -> AllCategories] :
     \A c \in AllCategories : \E i \in DOMAIN o : o[i] = c}

\* the source text of a class statement and of a module (inspect.getsource)
ClassStatement(name) ==
  "class " \o name \o "(QualityAssurance):\n    pass\n\n\n"

RECURSIVE Statements(_)
Statements(body) ==
  IF body = <<>> THEN ""
  ELSE ClassStatement(Head(body)) \o Statements(Tail(body))

Source(m, body) == Header[m] \o Statements(body)

getsource(m) == Source(m, package[m])

\* str.find: the offset of the first occurrence of sub in text, or -1
StrFind(text, sub) ==
  LET hits == {i \in 1..(Len(text) - Len(sub) + 1) :
                 SubSeq(text, i, i + Len(sub) - 1) = sub}
  IN IF hits = {} THEN 0 - 1
     ELSE (CHOOSE i \in hits : \A j \in hits : i <= j) - 1

\* the order of the characters of an identifier
Ascii == "ABCDEFGHIJKLMNOPQRSTUVWXYZ_abcdefghijklmnopqrstuvwxyz"

AsciiCodes ==
  [c \in {SubSeq(Ascii, i, i) : i \in 1..Len(Ascii)} |-> StrFind(Ascii, c)]

Ord(c) == AsciiCodes[c]

\* a < b for two strings
RECURSIVE Less(_, _)
Less(a, b) ==
  IF b = "" THEN FALSE
  ELSE IF a = "" THEN TRUE
  ELSE LET x == Ord(SubSeq(a, 1, 1))
           y == Ord(SubSeq(b, 1, 1))
       IN IF x # y THEN x < y
          ELSE Less(SubSeq(a, 2, Len(a)), SubSeq(b, 2, Len(b)))

\* the class statements of the package
Declared ==
  UNION {{[module |-> m, decl |-> i, class |-> package[m][i]] :
            i \in DOMAIN package[m]} : m \in ModuleNames}

\* statement a is executed after statement b
Later(a, b) ==
  \/ ModuleIndex(a.module) > ModuleIndex(b.module)
  \/ a.module = b.module /\ a.decl > b.decl

\* the class objects bound in the namespace of the package after its import
\* list has run: a later statement of the same name rebinds the name
Bound ==
  {c \in Declared : \A d \in Declared : d.class = c.class => ~Later(d, c)}

\* the order of the class names, tabulated
ClassNames == UNION {Declarable[m] : m \in ModuleNames}

Precedes == {p \in ClassNames \X ClassNames : Less(p[1], p[2])}

RECURSIVE SortByName(_)
SortByName(S) ==
  IF S = {} THEN <<>>
  ELSE LET c == CHOOSE x \in S : \A y \in S : <<y.class, x.class>> \notin Precedes
       IN <<c>> \o SortByName(S \ {c})

\* mutant: the members are enumerated in an order that changes once
\* instances have been created
getmembersUnstable ==
  LET ms == SortByName(Bound)
  IN IF created = 0 THEN ms
     ELSE [i \in DOMAIN ms |-> ms[Len(ms) + 1 - i]]

\* inspect.getmembers: the members that pass the test of lines 45-49,
\* sorted by name
getmembers == SortByName(Bound)

\* getsource(module).find(name), tabulated for every body a module of the
\* model can have
Offsets ==
  UNION {UNION {{[module |-> m, body |-> body, name |-> name,
                  offset |-> StrFind(Source(m, body), name)] :
                   name \in Declarable[m]} :
                body \in Bodies(m)} :
         m \in ModuleNames}

\* the sort key of lines 55-60
Key(x) ==
  (CHOOSE t \in Offsets : /\ t.module = x.module
                          /\ t.body = package[x.module]
                          /\ t.name = x.class).offset

\* list.sort(key=...): a stable sort.  An element goes behind the elements
\* with a smaller key and behind the earlier elements with the same key.
SortByKey(xs) ==
  LET keys == <<>> \o [i \in DOMAIN xs |-> Key(xs[i])]
      before(i) == {j \in DOMAIN xs :
                      keys[j] < keys[i] \/ (keys[j] = keys[i] /\ j < i)}
  IN <<>> \o [p \in DOMAIN xs |->
        xs[CHOOSE i \in DOMAIN xs : Cardinality(before(i)) = p - 1]]

\* mutant: the instances are made once and handed out again by every call
getChecksCached(first) ==
  LET ms == getmembers
  IN SortByKey([i \in DOMAIN ms |->
                  [id |-> i, module |-> ms[i].module,
                   decl |-> ms[i].decl, class |-> ms[i].class]])

\* getChecks, called when first - 1 instances exist: obj() for every member
\* (line 51), then the sort
getChecks(first) ==
  LET ms == getmembers
  IN SortByKey([i \in DOMAIN ms |->
                  [id |-> first + i - 1, module |-> ms[i].module,
                   decl |-> ms[i].decl, class |-> ms[i].class]])

\* mutant: every group gets a copy of the check
MemberCopy(check, category) ==
  [check EXCEPT !.id = 0 - (100 * @ + Len(category))]

\* line 105: the instance itself is appended to the group
Member(check, category) == check

\* lines 101-105 for one check: the dict is a function on its keys
RECURSIVE PutAll(_, _, _)
PutAll(d, check, cats) ==
  IF cats = <<>> THEN d
  ELSE LET c == Head(cats)
           e == IF c \in DOMAIN d
                  THEN [d EXCEPT ![c] = Append(@, Member(check, c))]
                  ELSE d @@ (c :> <<Member(check, c)>>)
       IN PutAll(e, check, Tail(cats))

RECURSIVE Split(_, _)
Split(d, checks) ==
  IF checks = <<>> THEN d
  ELSE Split(PutAll(d, Head(checks), Categories[Head(checks).class]),
             Tail(checks))

\* the empty dict
EmptyDict == [c \in {} |-> <<>>]

getChecksSplitByCategory(first) == Split(EmptyDict, getChecks(first))

\* dict.keys()
Keys(d) == SelectSeq(keyOrder, LAMBDA c : c \in DOMAIN d)

getChecksCategories(first) == Keys(getChecksSplitByCategory(first))

\* collections.COLLECTION
COLLECTION ==
  [ animation |-> <<"Animation", "Scene">>,
    modelling |-> <<"Modelling", "Geometry", "UV", "Shaders", "Render Stats",
                    "Scene">>,
    rigging |-> <<"Rigging", "Skinning", "Shaders", "Render Stats", "Scene">>,
    lookdev |-> <<"Shaders", "Textures", "UV", "Render Layers",
                  "Render Stats", "Scene">> ]

\* the names a caller passes: the configured ones and one that is not
CollectionNames == DOMAIN COLLECTION \cup {"custom"}

\* getCollections().get(collection): None is the empty list of the model
CollectionGet(collection) ==
  IF collection \in DOMAIN COLLECTION THEN COLLECTION[collection] ELSE <<>>

\* mutant: no fallback for a name that is not configured
OrNothing(found, categories) == found

\* line 79: found or categories
Or(found, categories) == IF found = <<>> THEN categories ELSE found

\* data.get(category): None is the empty list of the model
Get(d, category) == IF category \in DOMAIN d THEN d[category] ELSE <<>>

\* mutant: a category is taken whether or not it has checks
PickAll(categories, d) == categories

\* mutant: the categories are taken in the order of the index
PickInIndexOrder(categories, d) ==
  SelectSeq(Keys(d), LAMBDA c : \E i \in DOMAIN categories : categories[i] = c)

\* lines 82-86: the categories of the list that have checks
Pick(categories, d) ==
  SelectSeq(categories, LAMBDA c : Get(d, c) # <<>>)

\* getChecksFromCollection: the OrderedDict is the list of its items
getChecksFromCollection(collection, first) ==
  LET d == getChecksSplitByCategory(first)
      categories == getChecksCategories(first + Len(getmembers))
      chosen == Pick(Or(CollectionGet(collection), categories), d)
  IN [i \in DOMAIN chosen |->
        [category |-> chosen[i], checks |-> Get(d, chosen[i])]]

\* ------------------------------------------------------ CheckWidget (ui)
\* mutant: the find button is never disabled
UrgencyEnabledAlways(r) == TRUE

\* __init__, lines 158-159: the find button is disabled for a check that
\* is not findable
UrgencyEnabled(r) == isFindable(r)

\* __init__, lines 175-176: the states the selection-only box can be in
CheckBoxStates(r) == IF isSelectable(r) THEN BOOLEAN ELSE {FALSE}

\* refresh(), lines 238-246
RefreshSelect(r) == errors[r] # <<>> /\ isSelectable(r)

\* mutant: the fix button is enabled whenever the check holds errors
RefreshFixAnyRule(r) == errors[r] # <<>>

RefreshFix(r) == errors[r] # <<>> /\ isFixable(r)

\* the names bound in the module namespace of widgets.py (lines 1-2 and
\* its classes)
WidgetsGlobals ==
  {"utils", "checks", "collections", "CollectionsWidget", "DropDownWidget",
   "CategoryWidget", "CheckWidget", "QualityAssuranceWidget"}

\* the name through which each batch handler reaches processEvents
\* (doFindAll line 321, doFixAll line 334)
ProcessEventsName(kind) == IF kind = "findAll" THEN "utils" ELSE "QtCore"

\* the handler suspends in processEvents, or the name lookup raises
\* NameError and the handler is left
ProcessEvents(kind) ==
  IF ProcessEventsName(kind) \in WidgetsGlobals THEN "events" ELSE "aborted"

\* the button doFindAll / doFixAll test before they run a widget
ButtonEnabled(kind, r) ==
  IF kind = "findAll" THEN UrgencyEnabled(r) ELSE fixEnabled[r]

\* the for loop over self.widgets moves to the next widget
NextWidget(i) == i + 1

\* no call is running and Qt can dispatch a user event: at the top level
\* or inside the processEvents call of a batch handler
\* mutant: Qt dispatches a user event at any time
CanDispatchAnytime == TRUE

CanDispatch == op = NoOp /\ (batch = NoBatch \/ batch.phase = "events")

TopLevel == op = NoOp /\ batch = NoBatch

\* ------------------------------------------------------------- the actions
\* a script calls check.find() / check.fix() / check.select() directly
ApiFind(r) ==
  /\ TopLevel /\ InView(r)
  /\ FindCall(r, "api")
  /\ UNCHANGED <<regVars, detVars, view, evaluated, exists, onSelected, selection, undoDepth,
                 fixEnabled, selEnabled, batch>>

ApiFix(r) ==
  /\ TopLevel /\ InView(r)
  /\ FixCall(r, "api")
  /\ UNCHANGED <<regVars, detVars, view, evaluated, exists, errors, onSelected, selection,
                 fixEnabled, selEnabled, batch>>

ApiSelect(r) ==
  /\ TopLevel /\ InView(r)
  /\ Select(r)
  /\ UNCHANGED <<regVars, detVars, view, evaluated, exists, errors, onSelected, undoDepth,
                 fixEnabled, selEnabled, op, batch>>

\* a script assigns check.onSelected (the property setter)
ApiSetOnSelected(r) ==
  /\ TopLevel /\ InView(r)
  /\ onSelected' = [onSelected EXCEPT ![r] = ~@]
  /\ UNCHANGED <<regVars, detVars, view, evaluated, exists, errors, selection, undoDepth,
                 fixEnabled, selEnabled, op, batch>>

\* CheckWidget.doFind, lines 206-207
ClickFind(r) ==
  /\ CanDispatch /\ InView(r) /\ UrgencyEnabled(r)
  /\ \E chk \in CheckBoxStates(r) :
       onSelected' = [onSelected EXCEPT ![r] = chk]
  /\ FindCall(r, "click")
  /\ UNCHANGED <<regVars, detVars, view, evaluated, exists, selection, undoDepth, fixEnabled,
                 selEnabled, batch>>

\* CheckWidget.doFix, line 215
ClickFix(r) ==
  /\ CanDispatch /\ InView(r) /\ fixEnabled[r]
  /\ FixCall(r, "click")
  /\ UNCHANGED <<regVars, detVars, view, evaluated, exists, errors, onSelected, selection,
                 fixEnabled, selEnabled, batch>>

\* the select button, line 185
ClickSelect(r) ==
  /\ CanDispatch /\ InView(r) /\ selEnabled[r]
  /\ Select(r)
  /\ UNCHANGED <<regVars, detVars, view, evaluated, exists, errors, onSelected, undoDepth,
                 fixEnabled, selEnabled, op, batch>>

\* the user deletes or creates a node in the scene
ExternalDelete(n) ==
  /\ CanDispatch /\ n \in exists
  /\ exists' = exists \ {n}
  /\ UNCHANGED <<regVars, detVars, view, evaluated, errors, onSelected, selection, undoDepth,
                 fixEnabled, selEnabled, op, batch>>

ExternalCreate(n) ==
  /\ CanDispatch /\ n \notin exists
  /\ exists' = exists \cup {n}
  /\ UNCHANGED <<regVars, detVars, view, evaluated, errors, onSelected, selection, undoDepth,
                 fixEnabled, selEnabled, op, batch>>

\* The user edits the scene between two calls of a script: a node is
\* deleted (the host takes it out of the selection) or created, selected
\* or deselected, an attribute is edited so that the node starts or stops
\* to offend, or the script sets onSelected.  The history of calls on the
\* unchanged scene starts anew.
SceneDelete(n) ==
  /\ TopLevel /\ n \in exists
  /\ exists' = exists \ {n}
  /\ selection' = selection \ {n}
  /\ flagged' = flagged \ {n}
  /\ detected' = <<>>
  /\ UNCHANGED <<regVars, hostVars, view, evaluated, errors, onSelected, undoDepth, fixEnabled,
                 selEnabled, op, batch>>

SceneCreate(n) ==
  /\ TopLevel /\ n \notin exists
  /\ exists' = exists \cup {n}
  /\ detected' = <<>>
  /\ UNCHANGED <<regVars, hostVars, flagged, view, evaluated, errors, onSelected, selection,
                 undoDepth, fixEnabled, selEnabled, op, batch>>

SceneSelect(n) ==
  /\ TopLevel /\ n \in exists
  /\ selection' = IF n \in selection THEN selection \ {n}
                                     ELSE selection \cup {n}
  /\ detected' = <<>>
  /\ UNCHANGED <<regVars, hostVars, flagged, view, evaluated, exists, errors, onSelected,
                 undoDepth, fixEnabled, selEnabled, op, batch>>

SceneSetAttr(n) ==
  /\ TopLevel /\ n \in exists
  /\ flagged' = IF n \in flagged THEN flagged \ {n} ELSE flagged \cup {n}
  /\ detected' = <<>>
  /\ UNCHANGED <<regVars, hostVars, view, evaluated, exists, errors, onSelected, selection,
                 undoDepth, fixEnabled, selEnabled, op, batch>>

SceneSetOnSelected(r) ==
  /\ TopLevel /\ InView(r)
  /\ onSelected' = [onSelected EXCEPT ![r] = ~@]
  /\ detected' = <<>>
  /\ UNCHANGED <<regVars, hostVars, flagged, view, evaluated, exists, errors, selection,
                 undoDepth, fixEnabled, selEnabled, op, batch>>

\* a script calls check.find() on the scene: the whole call, with the
\* pass computed from the scene
FindOnScene(r) ==
  /\ TopLevel /\ InView(r) /\ isFindable(r)
  /\ errors' = [errors EXCEPT ![r] = StoreAll(<<>>, Find(r))]
  /\ evaluated' = [evaluated EXCEPT ![r] = TRUE]
  /\ selection' = SelectionAfterFind(selection)
  /\ detected' = LastTwo(Append(detected, errors'[r]))
  /\ edits' = EditsAfterFind(r)
  /\ layer' = LayerAfterFind(r)
  /\ UNCHANGED <<regVars, flagged, view, exists, onSelected, undoDepth, fixEnabled,
                 selEnabled, op, batch>>

\* the same call when a host query of the pass raises after k subjects:
\* the exception leaves find() with what the loop has stored so far
FindOnSceneRaise(r) ==
  /\ TopLevel /\ InView(r) /\ isFindable(r)
  /\ \E k \in 0..Len(Find(r)) :
       errors' = [errors EXCEPT ![r] = StoreAll(<<>>, SubSeq(Find(r), 1, k))]
  /\ edits' \in {edits, EditsAfterFind(r)}
  /\ layer' \in LayersAfterRaise(r)
  /\ detected' = <<>>
  /\ UNCHANGED <<regVars, flagged, view, evaluated, exists, onSelected, selection,
                 undoDepth, fixEnabled, selEnabled, op, batch>>

\* the user makes another render layer current
SceneSetLayer(l) ==
  /\ TopLevel /\ l # layer
  /\ layer' = l
  /\ detected' = <<>>
  /\ UNCHANGED <<regVars, edits, flagged, view, evaluated, exists, errors, onSelected,
                 selection, undoDepth, fixEnabled, selEnabled, op, batch>>

\* an edit of the loaded reference fails to apply
SceneFailEdit ==
  /\ TopLevel /\ ~edits
  /\ edits' = TRUE
  /\ detected' = <<>>
  /\ UNCHANGED <<regVars, layer, flagged, view, evaluated, exists, errors, onSelected,
                 selection, undoDepth, fixEnabled, selEnabled, op, batch>>

\* a caller of the checks package: getChecks()
CallGetChecks ==
  /\ calls < MaxCalls
  /\ calls' = calls + 1
  /\ returned' = LastTwo(Append(returned, getChecks(created + 1)))
  /\ created' = created + Len(getmembers)
  /\ UNCHANGED <<package, keyOrder, data, resolved, withErrors, detVars, view, exists,
                 errors, onSelected, selection, undoDepth, fixEnabled,
                 selEnabled, op, batch, evaluated>>

CallGetChecksSplitByCategory ==
  /\ calls < MaxCalls
  /\ calls' = calls + 1
  /\ data' = getChecksSplitByCategory(created + 1)
  /\ created' = created + Len(getmembers)
  /\ UNCHANGED <<package, keyOrder, returned, resolved, withErrors, detVars, view, exists,
                 errors, onSelected, selection, undoDepth, fixEnabled,
                 selEnabled, op, batch, evaluated>>

\* getChecksFromCollection calls getChecksSplitByCategory twice (lines 76
\* and 78, through getChecksCategories)
CallGetChecksFromCollection(collection) ==
  /\ calls < MaxCalls
  /\ calls' = calls + 1
  /\ resolved' = [collection |-> collection,
                  items |-> getChecksFromCollection(collection, created + 1)]
  /\ created' = created + 2 * Len(getmembers)
  /\ UNCHANGED <<package, keyOrder, returned, data, withErrors, detVars, view, exists,
                 errors, onSelected, selection, undoDepth, fixEnabled,
                 selEnabled, op, batch, evaluated>>

\* the check instances of the view that QualityAssuranceWidget.refresh
\* builds its widgets from (widgets.py lines 361-371)
RECURSIVE Widgets(_)
Widgets(items) ==
  IF items = <<>> THEN <<>>
  ELSE Head(items).checks \o Widgets(Tail(items))

\* the find button of the widget of a class of the view is released and
\* the pass finds errors: the instance of the widget holds them
FindInView(class) ==
  /\ \E check \in Range(Widgets(resolved.items)) :
       /\ check.class = class
       /\ check \notin withErrors
       /\ withErrors' = withErrors \cup {check}
  /\ Cardinality(withErrors) < MaxFound
  /\ UNCHANGED <<package, keyOrder, created, calls, returned, data, resolved,
                 detVars, view, exists, errors, onSelected, selection,
                 undoDepth, fixEnabled, selEnabled, op, batch, evaluated>>

\* find() / fix() returns or raises to its caller.  doFind / doFix refresh
\* the widget after a return (lines 208, 216); a batch handler then
\* repaints and calls processEvents (lines 320-321, 333-334).  An
\* exception leaves the handler without a refresh.
OpReturn ==
  /\ op.kind \in {"find", "fix"} /\ op.phase \in {"done", "raised"}
  /\ LET r == op.rule
         refreshed == op.phase = "done" /\ op.caller \in {"click", "batch"}
     IN /\ fixEnabled' = IF refreshed
                           THEN [fixEnabled EXCEPT ![r] = RefreshFix(r)]
                           ELSE fixEnabled
        /\ selEnabled' = IF refreshed
                           THEN [selEnabled EXCEPT ![r] = RefreshSelect(r)]
                           ELSE selEnabled
        /\ batch' = IF op.caller # "batch" THEN batch
                    ELSE IF op.phase = "raised"
                      THEN [batch EXCEPT !.phase = "aborted"]
                      ELSE [batch EXCEPT !.phase = ProcessEvents(batch.kind)]
  /\ op' = NoOp
  /\ UNCHANGED <<regVars, detVars, view, evaluated, exists, errors, onSelected, selection, undoDepth>>

\* the Find All / Fix All button is released
ClickFindAll ==
  /\ TopLevel
  /\ batch' = [kind |-> "findAll", i |-> 1, phase |-> "loop", log |-> <<>>,
               due |-> SelectSeq(view, LAMBDA r : RuleTable[r].hasFind)]
  /\ UNCHANGED <<regVars, detVars, view, evaluated, exists, errors, onSelected, selection, undoDepth,
                 fixEnabled, selEnabled, op>>

ClickFixAll ==
  /\ TopLevel
  /\ batch' = [kind |-> "fixAll", i |-> 1, phase |-> "loop", log |-> <<>>,
               due |-> SelectSeq(view, LAMBDA r :
                          RuleTable[r].hasFix /\ errors[r] # <<>>)]
  /\ UNCHANGED <<regVars, detVars, view, evaluated, exists, errors, onSelected, selection, undoDepth,
                 fixEnabled, selEnabled, op>>

\* doFindAll lines 316-317, doFixAll lines 329-330: continue
BatchSkip ==
  /\ op = NoOp /\ batch.phase = "loop" /\ batch.i <= Len(view)
  /\ ~ButtonEnabled(batch.kind, view[batch.i])
  /\ batch' = [batch EXCEPT !.i = NextWidget(@)]
  /\ UNCHANGED <<regVars, detVars, view, evaluated, exists, errors, onSelected, selection, undoDepth,
                 fixEnabled, selEnabled, op>>

\* doFindAll line 319: widget.doFind()
BatchFind ==
  /\ op = NoOp /\ batch.kind = "findAll" /\ batch.phase = "loop"
  /\ batch.i <= Len(view)
  /\ ButtonEnabled("findAll", view[batch.i])
  /\ LET r == view[batch.i]
     IN /\ \E chk \in CheckBoxStates(r) :
             onSelected' = [onSelected EXCEPT ![r] = chk]
        /\ FindCall(r, "batch")
        /\ batch' = [batch EXCEPT !.log = Append(@, r)]
  /\ UNCHANGED <<regVars, detVars, view, evaluated, exists, selection, undoDepth, fixEnabled, selEnabled>>

\* doFixAll line 332: widget.doFix()
BatchFix ==
  /\ op = NoOp /\ batch.kind = "fixAll" /\ batch.phase = "loop"
  /\ batch.i <= Len(view)
  /\ ButtonEnabled("fixAll", view[batch.i])
  /\ LET r == view[batch.i]
     IN /\ FixCall(r, "batch")
        /\ batch' = [batch EXCEPT !.log = Append(@, r)]
  /\ UNCHANGED <<regVars, detVars, view, evaluated, exists, errors, onSelected, selection, fixEnabled,
                 selEnabled>>

\* processEvents returns: the loop takes the next widget
BatchResume ==
  /\ op = NoOp /\ batch.phase = "events"
  /\ batch' = [batch EXCEPT !.i = NextWidget(@), !.phase = "loop"]
  /\ UNCHANGED <<regVars, detVars, view, evaluated, exists, errors, onSelected, selection, undoDepth,
                 fixEnabled, selEnabled, op>>

\* the loop is exhausted
BatchFinish ==
  /\ op = NoOp /\ batch.phase = "loop" /\ batch.i > Len(view)
  /\ batch' = [batch EXCEPT !.phase = "done"]
  /\ UNCHANGED <<regVars, detVars, view, evaluated, exists, errors, onSelected, selection, undoDepth,
                 fixEnabled, selEnabled, op>>

\* the handler has returned, or Qt has reported its exception
BatchReturn ==
  /\ batch.phase \in {"done", "aborted"}
  /\ batch' = NoBatch
  /\ UNCHANGED <<regVars, detVars, view, evaluated, exists, errors, onSelected, selection, undoDepth,
                 fixEnabled, selEnabled, op>>

\* --------------------------------------------------------- specifications
\* no function of the checks package has been called
NotCalled ==
  /\ created = 0
  /\ calls = 0
  /\ returned = <<>>
  /\ data = EmptyDict
  /\ resolved = [collection |-> "", items |-> <<>>]
  /\ withErrors = {}

\* the specifications of the engine and of the widgets do not follow the
\* checks package
Unloaded ==
  /\ package = [m \in ModuleNames |-> <<>>]
  /\ keyOrder = <<>>
  /\ NotCalled

Start(views, scene) ==
  /\ view \in views
  /\ exists = scene
  /\ errors = [r \in RuleNames |-> <<>>]
  /\ onSelected = [r \in RuleNames |-> FALSE]
  /\ selection = {}
  /\ undoDepth = 0
  /\ fixEnabled = [r \in RuleNames |-> FALSE]
  /\ selEnabled = [r \in RuleNames |-> FALSE]
  /\ op = NoOp
  /\ batch = NoBatch
  /\ evaluated = [r \in RuleNames |-> FALSE]
  /\ flagged = {}
  /\ detected = <<>>
  /\ layer = "defaultRenderLayer"
  /\ edits = FALSE
  /\ Unloaded

\* the steps inside a running find() / fix() call and its return
Engine ==
  \/ FindYield
  \/ FindStop
  \/ FindRaise
  \/ FixItem
  \/ FixExit
  \/ OpReturn

\* Spec: one check instance driven by a script, on a scene the user edits
Init == Start(SingleViews, Nodes)

Next ==
  \/ \E r \in RuleNames : ApiFind(r)
  \/ \E r \in RuleNames : ApiFix(r)
  \/ \E r \in RuleNames : ApiSelect(r)
  \/ \E r \in RuleNames : ApiSetOnSelected(r)
  \/ \E n \in Nodes : ExternalDelete(n)
  \/ \E n \in Nodes : ExternalCreate(n)
  \/ Engine

Spec == Init /\ [][Next]_vars

\* SpecRun: the same, and the interpreter runs a call that has started: a
\* host call inside the loop of fix() returns or raises, and the loop and
\* the with block are left when the snapshot is exhausted
SpecRun == Spec /\ WF_vars(FixItem) /\ WF_vars(FixExit)

\* SpecUI: the widget with a view of several checks, driven by its buttons,
\* on a scene of one node
InitUI == Start(Views, {1})

NextUI ==
  \/ \E r \in RuleNames : ClickFind(r)
  \/ \E r \in RuleNames : ClickFix(r)
  \/ \E r \in RuleNames : ClickSelect(r)
  \/ \E n \in Nodes : ExternalDelete(n)
  \/ ClickFindAll
  \/ ClickFixAll
  \/ BatchSkip
  \/ BatchFind
  \/ BatchFix
  \/ BatchResume
  \/ BatchFinish
  \/ BatchReturn
  \/ Engine

SpecUI == InitUI /\ [][NextUI]_vars

\* SpecScene: one findable check whose detection pass is computed from
\* the scene, which holds a referenced node and which the user edits
SceneViews ==
  { <<"PrimaryVisibility">>, <<"DeleteHistory">>, <<"EmptyUVSets">>,
    <<"NGonFaces">>, <<"MismatchedAdjustments">> }

InitScene == Start(SceneViews, AllNodes)

NextScene ==
  \/ \E r \in RuleNames : FindOnScene(r)
  \/ \E r \in RuleNames : FindOnSceneRaise(r)
  \/ \E l \in Layers : SceneSetLayer(l)
  \/ SceneFailEdit
  \/ \E r \in RuleNames : SceneSetOnSelected(r)
  \/ \E n \in Nodes : SceneDelete(n)
  \/ \E n \in Nodes : SceneCreate(n)
  \/ \E n \in AllNodes : SceneSelect(n)
  \/ \E n \in AllNodes : SceneSetAttr(n)

SpecScene == InitScene /\ [][NextScene]_vars

\* SpecRegistry: the checks package with its modules' sources, and callers
\* of its functions; no check is run
InitRegistry ==
  /\ package \in Packages
  /\ keyOrder \in KeyOrders
  /\ NotCalled
  /\ view = <<>>
  /\ exists = {}
  /\ errors = [r \in RuleNames |-> <<>>]
  /\ onSelected = [r \in RuleNames |-> FALSE]
  /\ selection = {}
  /\ undoDepth = 0
  /\ fixEnabled = [r \in RuleNames |-> FALSE]
  /\ selEnabled = [r \in RuleNames |-> FALSE]
  /\ op = NoOp
  /\ batch = NoBatch
  /\ evaluated = [r \in RuleNames |-> FALSE]
  /\ flagged = {}
  /\ detected = <<>>
  /\ layer = "defaultRenderLayer"
  /\ edits = FALSE

NextRegistry ==
  \/ CallGetChecks
  \/ CallGetChecksSplitByCategory
  \/ \E collection \in CollectionNames : CallGetChecksFromCollection(collection)

SpecRegistry == InitRegistry /\ [][NextRegistry]_vars

\* SpecViews: the widget over the package as shipped (geometry.py with its
\* two statements of EmptyMesh); the user changes the collection, which
\* refreshes the view, and runs checks of the view that find errors
Shipped ==
  [ textures |-> <<"NonExistingTextures">>,
    geometry |-> <<"EmptyMesh", "EmptyMesh", "ZeroEdgeLength">>,
    renderStats |-> <<"PrimaryVisibility">> ]

InitViews == InitRegistry /\ package = Shipped

NextViews ==
  \/ \E collection \in CollectionNames : CallGetChecksFromCollection(collection)
  \/ \E class \in ClassNames : FindInView(class)

SpecViews == InitViews /\ [][NextViews]_vars

TypeOK ==
  /\ view \in Views \cup SingleViews \cup {<<>>}
  /\ exists \subseteq AllNodes
  /\ selection \subseteq AllNodes
  /\ flagged \subseteq AllNodes
  /\ layer \in Layers
  /\ edits \in BOOLEAN
  /\ undoDepth \in 0..1
  /\ \A r \in RuleNames : Range(errors[r]) \subseteq ErrorsOf(r)

\* ------------------------------------------------------------------ claims
\* the errors of the visits of a fix() call, and the visits that raised
ErrOf(log) == [i \in DOMAIN log |-> log[i].err]

RaisedIn(log) == SelectSeq(log, LAMBDA v : v.res = "raise")

FixDone == op.kind = "fix" /\ op.phase = "done"

FindDone == op.kind = "find" /\ op.phase = "done"

\* C1: fault isolation in fix().  A fix() call on a fixable rule never
\* raises; when it has returned, every error of the list was visited, in
\* list order, remediation was invoked on every error whose subject was in
\* the graph, and errors holds exactly the errors whose remediation raised,
\* in their original order.
C1_FaultIsolation ==
  /\ (op.kind = "fix" /\ op.phase = "raised") => ~RuleTable[op.rule].hasFix
  /\ FixDone =>
       /\ ErrOf(op.log) = op.pre
       /\ \A i \in DOMAIN op.log :
            op.log[i].existed => op.log[i].res \in {"ok", "raise"}
       /\ errors[op.rule] = ErrOf(RaisedIn(op.log))

\* a fix() of two errors has returned: the first remediation raised, the
\* second one was still attempted and succeeded, the first error is left
C1_Witness ==
  /\ FixDone /\ Len(op.pre) = 2
  /\ op.log[1].res = "raise" /\ op.log[2].res = "ok"
  /\ errors[op.rule] = <<op.pre[1]>>

\* C3: result of find().  When find() has returned, errors holds no two
\* equal records, holds exactly the subjects the pass yielded, in the order
\* of their first yield, whatever errors held before the call.
FirstIndex(s, e) == CHOOSE i \in DOMAIN s : s[i] = e /\ \A j \in 1..(i-1) : s[j] # e

C3_FindResult ==
  FindDone =>
    LET errs == errors[op.rule]
    IN /\ \A i, j \in DOMAIN errs : errs[i] = errs[j] => i = j
       /\ Range(errs) = Range(op.log)
       /\ \A i, j \in DOMAIN errs :
            i < j => FirstIndex(op.log, errs[i]) < FirstIndex(op.log, errs[j])

\* a find() has returned whose pass yielded a subject twice, on a rule that
\* held an error before the call which the pass did not yield again
C3_Witness ==
  /\ FindDone
  /\ \E i, j \in DOMAIN op.log : i < j /\ op.log[i] = op.log[j]
  /\ \E e \in Range(op.pre) : e \notin Range(errors[op.rule])
  /\ \E e \in Range(errors[op.rule]) : e \notin Range(op.pre)

\* C4 as stated: on a selection-scoped, selectable rule, every error whose
\* subject is no longer in the graph when fix() reaches it is removed from
\* errors without a remediation call, and fix() does not raise.
C4_StaleDropAnyError ==
  /\ (op.kind = "fix" /\ op.phase = "raised") => ~RuleTable[op.rule].hasFix
  /\ (FixDone /\ RuleTable[op.rule].selectable /\ onSelected[op.rule]) =>
       \A i \in DOMAIN op.log :
         ~op.log[i].existed =>
           op.log[i].res = "drop" /\ ~Contains(errors[op.rule], op.log[i].err)

\* C4 amended: the same for every error that is a single string identifier.
C4_StaleDrop ==
  /\ (op.kind = "fix" /\ op.phase = "raised") => ~RuleTable[op.rule].hasFix
  /\ (FixDone /\ RuleTable[op.rule].selectable /\ onSelected[op.rule]) =>
       \A i \in DOMAIN op.log :
         (~op.log[i].err.list /\ ~op.log[i].existed) =>
           op.log[i].res = "drop" /\ ~Contains(errors[op.rule], op.log[i].err)

\* a fix() on a selection-scoped, selectable rule has returned; it dropped
\* an error whose node had been deleted and remediated another one
C4_Witness ==
  /\ FixDone /\ RuleTable[op.rule].selectable /\ onSelected[op.rule]
  /\ \E i \in DOMAIN op.log :
       /\ op.log[i].res = "drop" /\ ~op.log[i].existed
       /\ ~Contains(errors[op.rule], op.log[i].err)
  /\ \E i \in DOMAIN op.log : op.log[i].res = "ok"

\* C5 as stated: on every fixable rule, an error whose subject is no longer
\* in the graph when fix() reaches it is dropped without a remediation
\* call, and after fix() no error with a missing subject is left in errors.
C5_StaleAlwaysDropped ==
  FixDone =>
    /\ \A i \in DOMAIN op.log : ~op.log[i].existed => op.log[i].res = "drop"
    /\ \A i \in DOMAIN errors[op.rule] :
         Subjects(errors[op.rule][i]) \subseteq exists

\* C5 amended: an error whose subject is missing when fix() reaches it is
\* dropped without a remediation call if the rule is selectable and the
\* error is a single string identifier; in every other case remediation is
\* invoked on it, and it stays in errors exactly if that remediation raised.
C5_StaleDropOrRemediate ==
  FixDone =>
    \A i \in DOMAIN op.log :
      ~op.log[i].existed =>
        IF RuleTable[op.rule].selectable /\ ~op.log[i].err.list
          THEN /\ op.log[i].res = "drop"
               /\ ~Contains(errors[op.rule], op.log[i].err)
          ELSE /\ op.log[i].res \in {"ok", "raise"}
               /\ Contains(errors[op.rule], op.log[i].err)
                    <=> op.log[i].res = "raise"

\* a fix() on a rule that is not selectable has returned: remediation was
\* invoked on an error whose node is gone, it raised, the error is left
C5_Witness ==
  /\ FixDone /\ ~RuleTable[op.rule].selectable
  /\ \E i \in DOMAIN op.log :
       /\ ~op.log[i].existed /\ op.log[i].res = "raise"
       /\ Contains(errors[op.rule], op.log[i].err)
       /\ ~(Subjects(op.log[i].err) \subseteq exists)

\* C6: undo scope of fix().  While the loop of fix() runs exactly one undo
\* chunk is open and it is closed when fix() has returned; every visit of
\* an error and every change of the graph made inside fix() happens with
\* the chunk open.
C6_UndoScope ==
  /\ [](/\ (op.kind = "fix" /\ op.phase = "run") => undoDepth = 1
        /\ FixDone => undoDepth = 0)
  /\ [][(op.kind = "fix" /\ op.phase = "run"
           /\ (Len(op'.log) > Len(op.log) \/ exists' # exists))
          => (undoDepth = 1 /\ undoDepth' = 1)]_vars

\* a fix() has returned with the chunk closed after one remediation raised
\* and another one deleted a node
C6_Witness ==
  /\ FixDone /\ undoDepth = 0
  /\ \E i \in DOMAIN op.log : op.log[i].res = "raise"
  /\ \E i \in DOMAIN op.log : op.log[i].res = "ok"
  /\ exists # Nodes

\* C8: capability violation.  find() on a rule without _find and fix() on
\* a rule without _fix raise at once: no subject is yielded or visited,
\* errors is as it was before the call, and fix() has opened no undo chunk.
C8_CapabilityViolation ==
  /\ (op.kind = "find" /\ ~RuleTable[op.rule].hasFind) =>
       /\ op.phase = "raised" /\ op.log = <<>>
       /\ errors[op.rule] = op.pre
  /\ (op.kind = "fix" /\ ~RuleTable[op.rule].hasFix) =>
       /\ op.phase = "raised" /\ op.log = <<>>
       /\ errors[op.rule] = op.pre
       /\ undoDepth = 0

\* fix() was called on a rule that has errors and no _fix
C8_Witness ==
  /\ op.kind = "fix" /\ op.phase = "raised"
  /\ ~RuleTable[op.rule].hasFix
  /\ errors[op.rule] # <<>>

\* C9: state is 0 exactly when errors is empty and is otherwise the
\* declared urgency of the rule, 1 or 2; after a fix() that left errors it
\* is the state the rule had before the call.
C9_State ==
  /\ \A r \in RuleNames :
       /\ state(r) = 0 <=> errors[r] = <<>>
       /\ errors[r] # <<>> =>
            state(r) = RuleTable[r].urgency /\ state(r) \in {1, 2}
  /\ FixDone =>
       IF errors[op.rule] = <<>> THEN state(op.rule) = 0
       ELSE /\ op.pre # <<>>
            /\ state(op.rule) = RuleTable[op.rule].urgency

\* a fix() on a rule of urgency 1 has returned and left one of two errors
C9_Witness ==
  /\ FixDone /\ RuleTable[op.rule].urgency = 1
  /\ Len(op.pre) = 2 /\ Len(errors[op.rule]) = 1
  /\ state(op.rule) = 1

\* C10: message is the empty string when errors is empty; otherwise it is
\* the template, and the number read back from its count field is the
\* current length of errors.
RECURSIVE ParseDecimal(_)
ParseDecimal(ds) ==
  IF ds = <<>> THEN 0
  ELSE 10 * ParseDecimal(SubSeq(ds, 1, Len(ds) - 1)) + ds[Len(ds)]

C10_Message ==
  \A r \in RuleNames :
    IF errors[r] = <<>> THEN Len(message(r)) = 0
    ELSE /\ Len(message(r)) = Len(RuleTable[r].message)
         /\ ParseDecimal(message(r)[1]) = Len(errors[r])
         /\ Tail(message(r)) = Tail(RuleTable[r].message)

\* a fix() has returned and left one of two errors: the message counts 1
C10_Witness ==
  /\ FixDone /\ Len(op.pre) = 2 /\ Len(errors[op.rule]) = 1
  /\ ParseDecimal(message(op.rule)[1]) = 1

\* C2 as stated: a Fix All pass invokes fix() on every fixable rule of the
\* view that had errors when the pass began, once each and in view order.
C2_FixAllCoversView ==
  (batch.kind = "fixAll" /\ batch.phase \in {"done", "aborted"}) =>
    batch.log = batch.due

\* C7: Find All.  A Find All pass invokes find() only on findable rules, in
\* view order and at most once each; when the pass has returned, find() was
\* invoked on every findable rule of the view and each of them is Evaluated.
IsPrefix(s, t) == Len(s) <= Len(t) /\ SubSeq(t, 1, Len(s)) = s

C7_FindAll ==
  batch.kind = "findAll" =>
    /\ IsPrefix(batch.log, SelectSeq(view, LAMBDA r : RuleTable[r].hasFind))
    /\ batch.phase = "done" =>
         /\ batch.log = SelectSeq(view, LAMBDA r : RuleTable[r].hasFind)
         /\ \A i \in DOMAIN view :
              RuleTable[view[i]].hasFind => evaluated[view[i]]

\* a Find All pass over a view with a rule that is not findable between
\* two findable ones has returned
C7_Witness ==
  /\ batch.kind = "findAll" /\ batch.phase = "done"
  /\ Len(view) = 3 /\ Len(batch.log) = 2
  /\ ~RuleTable[view[2]].hasFind

\* what a rule exposes to its caller: the state, message and errors
\* properties and the three capability tests
Exposed(r) ==
  [state |-> state(r), message |-> message(r), errors |-> errors[r],
   findable |-> isFindable(r), fixable |-> isFixable(r),
   selectable |-> isSelectable(r)]

\* C11 as stated: never-evaluated and evaluated-with-zero-errors are not
\* conflated.  When the first find() of a rule that held no errors returns
\* with no errors, what the rule exposes differs from what it exposed
\* while it had never been evaluated.
C11_NeverEvaluatedDistinct ==
  [][\A r \in RuleNames :
       (~evaluated[r] /\ errors[r] = <<>> /\ evaluated'[r] /\ errors'[r] = <<>>)
         => Exposed(r)' # Exposed(r)]_vars

C20_NoReferencedSubject ==
  \A r \in RuleNames : \A i \in DOMAIN errors[r] :
    Subjects(errors[r][i]) \cap Referenced = {}

\* the subject identifiers of all errors of a rule
AllSubjects(r) == UNION {Subjects(errors[r][i]) : i \in DOMAIN errors[r]}

Classes(xs) ==
  [i \in DOMAIN xs |->
     [module |-> xs[i].module, decl |-> xs[i].decl, class |-> xs[i].class]]

\* C12 as stated: registry order is registration order.  Of two rules in a
\* result of getChecks(), the one whose class statement ran earlier (an
\* earlier module of the import list, or earlier in the same module) comes
\* first.
C12_RegistrationOrder ==
  \A k \in DOMAIN returned : \A i, j \in DOMAIN returned[k] :
    i < j => ~Later(returned[k][i], returned[k][j])

\* the checks of one module stand in the order of their class statements
InModuleOrder(xs) ==
  \A i, j \in DOMAIN xs :
    (i < j /\ xs[i].module = xs[j].module) => xs[i].decl < xs[j].decl

\* C13 as stated: within one module the checks are in the order of
\* occurrence in the source.  If class A is declared above class B in the
\* same module, the rule of A precedes the rule of B in getChecks() and in
\* every category list.
C13_SourceOrder ==
  /\ \A k \in DOMAIN returned : InModuleOrder(returned[k])
  /\ \A c \in DOMAIN data : InModuleOrder(data[c])
  /\ \A i \in DOMAIN resolved.items : InModuleOrder(resolved.items[i].checks)

HasChecks(c) ==
  \E b \in Bound :
    \E i \in DOMAIN Categories[b.class] : Categories[b.class][i] = c

\* the categories of the items of a resolved collection, in their order
ItemCategories(items) == [i \in DOMAIN items |-> items[i].category]

\* C15: collection resolution.  For a configured collection name the
\* categories of the returned ordered mapping are those of the declared
\* list of the collection that have checks, in the declared order; a
\* category of the index that the list does not name is left out.
C15_CollectionResolution ==
  resolved.collection \in DOMAIN COLLECTION =>
    /\ ItemCategories(resolved.items)
         = SelectSeq(COLLECTION[resolved.collection], HasChecks)
    /\ \A i \in DOMAIN resolved.items :
         \E j \in DOMAIN COLLECTION[resolved.collection] :
           COLLECTION[resolved.collection][j] = resolved.items[i].category

\* the modelling collection was resolved to Geometry and Render Stats, in
\* that order, over an index that lists Render Stats before Geometry and
\* holds Textures as well
C15_Witness ==
  /\ resolved.collection = "modelling"
  /\ ItemCategories(resolved.items) = <<"Geometry", "Render Stats">>
  /\ keyOrder = <<"Render Stats", "Textures", "Geometry">>
  /\ HasChecks("Textures")

\* the rules of a category in the order of the registry
RegistryOf(c) ==
  SelectSeq(Classes(getChecks(1)),
            LAMBDA x : \E i \in DOMAIN Categories[x.class] :
                          Categories[x.class][i] = c)

\* C16: unknown collection fallback.  For a name that is not configured
\* getChecksFromCollection returns all categories of the category index,
\* in the order the index lists them, each with its rules.
C16_UnknownCollectionFallback ==
  (resolved.collection # "" /\ resolved.collection \notin DOMAIN COLLECTION) =>
    /\ ItemCategories(resolved.items) = SelectSeq(keyOrder, HasChecks)
    /\ \A i \in DOMAIN resolved.items :
         Classes(resolved.items[i].checks)
           = RegistryOf(resolved.items[i].category)

\* a name that is not configured was resolved to the three categories of
\* the index, in an order of the index that is not the order of any
\* collection
C16_Witness ==
  /\ resolved.collection = "custom"
  /\ ItemCategories(resolved.items) = <<"Render Stats", "Textures", "Geometry">>
  /\ Len(resolved.items[3].checks) = 3

\* the entries of a group that belong to a class
EntriesOf(group, class) == {i \in DOMAIN group : group[i].class = class}

\* C17: categorisation.  In the result of getChecksSplitByCategory a rule
\* that declares N categories has one entry in each of the N groups and
\* none in any other group, all its entries are the same instance, two
\* rules are two instances, and each group lists its rules in the order of
\* the registry.
C17_Categorisation ==
  data # EmptyDict =>
    /\ \A b \in Bound : \A c \in AllCategories :
         IF \E i \in DOMAIN Categories[b.class] : Categories[b.class][i] = c
           THEN c \in DOMAIN data
                  /\ Cardinality(EntriesOf(data[c], b.class)) = 1
           ELSE c \in DOMAIN data => EntriesOf(data[c], b.class) = {}
    /\ \A c1, c2 \in DOMAIN data :
         \A i \in DOMAIN data[c1] : \A j \in DOMAIN data[c2] :
           (data[c1][i].class = data[c2][j].class)
             <=> (data[c1][i].id = data[c2][j].id)
    /\ \A c \in DOMAIN data : Classes(data[c]) = RegistryOf(c)

\* the check written for two categories stands in both groups, behind
\* another check in the Geometry group
C17_Witness ==
  /\ "Geometry" \in DOMAIN data /\ "Render Stats" \in DOMAIN data
  /\ EntriesOf(data["Geometry"], "Mesh") # {}
  /\ EntriesOf(data["Render Stats"], "Mesh") # {}
  /\ Len(data["Geometry"]) = 3

\* the scene as the claims name it: nodes, attributes, current render
\* layer and reference edits
Graph == <<exists, flagged, layer, edits>>

\* C21 as stated: find() is a pure read.  For every rule the graph after a
\* find() call equals the graph before it, whether the detection pass
\* completes or raises part-way.
C21_PureRead ==
  [][\A r \in RuleNames :
       (FindOnScene(r) \/ FindOnSceneRaise(r)) => Graph' = Graph]_vars

\* find() was left by an exception of the detection pass
FindFailed ==
  op.kind = "find" /\ op.phase = "raised" /\ RuleTable[op.rule].hasFind

\* C22: detection failure.  When the detection pass raises after yielding
\* k subjects, the exception leaves find() (the call is not completed and
\* the rule is not marked by it), and errors holds exactly the subjects
\* yielded before the failure, each once, in the order of their first
\* yield: the errors held before the call are gone.
C22_DetectionFailure ==
  /\ [](FindFailed =>
         LET errs == errors[op.rule]
         IN /\ \A i, j \in DOMAIN errs : errs[i] = errs[j] => i = j
            /\ Range(errs) = Range(op.log)
            /\ \A i, j \in DOMAIN errs :
                 i < j => FirstIndex(op.log, errs[i]) < FirstIndex(op.log, errs[j]))
  /\ [][(op.kind = "find" /\ op.phase = "run" /\ op'.phase = "raised")
          => (evaluated' = evaluated /\ errors' = errors)]_vars

\* a pass has raised after yielding one subject twice, on a rule that held
\* another error before the call: the partial result is neither the
\* previous list nor empty
C22_Witness ==
  /\ FindFailed
  /\ Len(op.log) = 2 /\ op.log[1] = op.log[2]
  /\ errors[op.rule] = <<op.log[1]>>
  /\ op.pre # <<>> /\ ~Contains(op.pre, op.log[1])

FixRunning == op.kind = "fix" /\ op.phase = "run"

\* the visits of a fix() call on which remediation was invoked
Remediated(log) == SelectSeq(log, LAMBDA v : v.res \in {"ok", "raise"})

\* C23: fix() drains and terminates.  fix() works on the list as it was at
\* the call: at every point of the loop the errors visited so far followed
\* by the errors still to visit are that list, so each of its n errors is
\* visited once, in list order, whatever the loop removes; at most n
\* remediation calls are made, none on an error visited before; and a
\* fix() that has started returns.
C23_FixDrains ==
  /\ []((FixRunning \/ FixDone) =>
         /\ ErrOf(op.log) \o op.todo = op.pre
         /\ Len(Remediated(op.log)) <= Len(op.pre)
         /\ FixDone => op.todo = <<>>)
  /\ (FixRunning ~> FixDone)

\* a fix() of two errors has returned after two visits: the first
\* remediation raised and was not tried again, the second error was
\* removed
C23_Witness ==
  /\ FixDone /\ Len(op.pre) = 2 /\ Len(op.log) = 2
  /\ op.log[1].res = "raise" /\ op.log[2].res \in {"ok", "drop"}
  /\ errors[op.rule] = <<op.pre[1]>>

\* the user starts an operation through a button of the widget
UiTriggered ==
  \/ \E r \in RuleNames : ClickFind(r) \/ ClickFix(r) \/ ClickSelect(r)
  \/ ClickFindAll
  \/ ClickFixAll

C25_ExactStaleDrop ==
  op.kind = "fix" =>
    \A i \in DOMAIN op.log :
      /\ op.log[i].res = "drop"
           <=> /\ RuleTable[op.rule].selectable
               /\ ~op.log[i].err.list
               /\ ~op.log[i].existed
      /\ op.log[i].res # "drop" => op.log[i].res \in {"ok", "raise"}

\* a fix() on a selectable rule outside selection scope has dropped the
\* error of a deleted node and remediated the error of an existing one
C25_Witness ==
  /\ FixDone /\ RuleTable[op.rule].selectable /\ ~onSelected[op.rule]
  /\ \E i \in DOMAIN op.log : op.log[i].res = "drop" /\ ~op.log[i].existed
  /\ \E i \in DOMAIN op.log : op.log[i].res = "ok" /\ op.log[i].existed

\* C26: every call creates the rule instances anew.  Each rule of the view
\* that a call of getChecksFromCollection returns is an instance made by
\* that call, with an empty error list: no instance that holds errors
\* found through an earlier view is in the new view, whatever collection
\* was shown before.
C26_FreshInstances ==
  [][\A collection \in CollectionNames :
       CallGetChecksFromCollection(collection) =>
         \A check \in Range(Widgets(resolved'.items)) :
           /\ check \notin withErrors'
           /\ check.id > created
           /\ \A old \in withErrors' : old.id # check.id]_vars

\* the rigging collection is shown after another view in which
\* PrimaryVisibility held errors: its Render Stats category lists a
\* PrimaryVisibility instance, and not the one that holds the errors
C26_Witness ==
  /\ resolved.collection = "rigging" /\ calls = 2
  /\ \E old \in withErrors : \E check \in Range(Widgets(resolved.items)) :
       /\ old.class = "PrimaryVisibility" /\ check.class = old.class
       /\ check.id # old.id
  /\ withErrors \cap Range(Widgets(resolved.items)) = {}

\* C27 as stated: registry completeness.  A result of getChecks() holds
\* exactly one rule instance for each class statement of the check
\* modules: none is missing and none has two instances.
C27_RegistryComplete ==
  \A k \in DOMAIN returned : \A d \in Declared :
    Cardinality({i \in DOMAIN returned[k] :
                   /\ returned[k][i].module = d.module
                   /\ returned[k][i].decl = d.decl}) = 1

\* C28: undo chunks are balanced and never nested.  Through any sequence
\* of find, fix and select operations and of Find All / Fix All passes,
\* one chunk is open while the loop of a fix() runs and none is open at any
\* other time; the step that takes a fix() past its capability check opens
\* one chunk, the step that leaves its loop closes one, and no other step
\* opens or closes any.
C28_UndoBalanced ==
  /\ [](undoDepth = IF FixRunning THEN 1 ELSE 0)
  /\ [][/\ (~FixRunning /\ FixRunning') => undoDepth' = undoDepth + 1
        /\ (FixRunning /\ ~FixRunning')
             => (undoDepth' = undoDepth - 1 /\ op'.phase = "done")
        /\ (FixRunning <=> FixRunning') => undoDepth' = undoDepth]_vars

\* the fix() of a Fix All pass has returned with the chunk closed after
\* every one of its remediations raised
C28_Witness ==
  /\ batch.kind = "fixAll" /\ FixDone /\ undoDepth = 0
  /\ op.log # <<>>
  /\ \A i \in DOMAIN op.log : op.log[i].res = "raise"

\* C29: the capability fault cannot be reached through the widget.  In
\* every sequence of Find, Fix, Find All and Fix All actions, find() runs
\* only on rules with a detection operation and fix() only on rules with a
\* remediation operation; the fix button of a rule without one is never
\* enabled, and the only exception that leaves a call is one of a
\* detection pass.
C29_NoCapabilityFault ==
  /\ op.kind = "find" => RuleTable[op.rule].hasFind
  /\ op.kind = "fix" => RuleTable[op.rule].hasFix
  /\ op.phase = "raised" => (op.kind = "find" /\ RuleTable[op.rule].hasFind)
  /\ \A r \in RuleNames : fixEnabled[r] => RuleTable[r].hasFix

\* a Fix All pass has stepped over a rule that holds errors and has no
\* remediation, and over a rule that has neither operation, and runs the
\* fix() of the third rule of the view
C29_Witness ==
  /\ batch.kind = "fixAll" /\ batch.i = 3 /\ Len(view) = 3
  /\ errors[view[1]] # <<>> /\ ~RuleTable[view[1]].hasFix
  /\ ~RuleTable[view[2]].hasFind
  /\ op.kind = "fix" /\ op.rule = view[3] /\ op.caller = "batch"

\* C30: every category of a view returned by getChecksFromCollection has
\* a non-empty list of rules and each of them declares the category; a
\* category that the collection names and for which no rule is registered
\* is not in the view, and no category is in the view twice.
C30_ViewCategories ==
  /\ \A i \in DOMAIN resolved.items :
       /\ resolved.items[i].checks # <<>>
       /\ \A j \in DOMAIN resolved.items[i].checks :
            \E k \in DOMAIN Categories[resolved.items[i].checks[j].class] :
              Categories[resolved.items[i].checks[j].class][k]
                = resolved.items[i].category
  /\ \A i, j \in DOMAIN resolved.items :
       resolved.items[i].category = resolved.items[j].category => i = j
  /\ \A c \in Range(CollectionGet(resolved.collection)) :
       ~HasChecks(c) => \A i \in DOMAIN resolved.items :
                          resolved.items[i].category # c

\* the look-dev collection, which names four categories without a rule,
\* was resolved to Textures and Render Stats, the second with two rules
C30_Witness ==
  /\ resolved.collection = "lookdev"
  /\ ItemCategories(resolved.items) = <<"Textures", "Render Stats">>
  /\ Len(resolved.items[2].checks) = 2

====
